---------------------------- MODULE Spec2Model ----------------------------
(***************************************************************************)
(* Model of agents/utils/bright_data.py: the in-memory TTL cache           *)
(* (_CACHE, _cache_get, _cache_set), search_google_serp (credential gate,  *)
(* cache lookup, provider call, payload unwrapping, result extraction,     *)
(* cache write) and format_serp_results (relevance ordering).              *)
(*                                                                         *)
(* Python strings are sequences of one-character strings.  Python and JSON *)
(* values are tagged records [t |-> tag, v |-> payload]; None is           *)
(* [t |-> "null"].  A dict is a TLA+ record, a list a sequence.            *)
(***************************************************************************)
EXTENDS Integers, Sequences, FiniteSets, TLC

-----------------------------------------------------------------------------
(* Python values *)

PyNone == [t |-> "null"]
PyStr(s) == [t |-> "str", v |-> s]
PyNum(n) == [t |-> "num", v |-> n]
PyList(l) == [t |-> "list", v |-> l]
PyDict(d) == [t |-> "dict", v |-> d]
\* the empty dict {}: a function with empty domain
EmptyDict == [k \in {} |-> PyNone]
\* the outcome of an operation that raises: caught by "except Exception"
Raised(what) == [t |-> "raised", v |-> what]

IsStr(x) == x.t = "str"
IsDict(x) == x.t = "dict"
IsList(x) == x.t = "list"
IsRaised(x) == x.t = "raised"

\* n copies of character c
Rep(c, n) == [i \in 1..n |-> c]

Min(a, b) == IF a < b THEN a ELSE b
Max(a, b) == IF a > b THEN a ELSE b

-----------------------------------------------------------------------------
(* str.lower() and the letters of [A-Z] under re.IGNORECASE *)

UpperLetters ==
  <<"A","B","C","D","E","F","G","H","I","J","K","L","M",
    "N","O","P","Q","R","S","T","U","V","W","X","Y","Z">>
LowerLetters ==
  <<"a","b","c","d","e","f","g","h","i","j","k","l","m",
    "n","o","p","q","r","s","t","u","v","w","x","y","z">>
UpperSet == {UpperLetters[i] : i \in 1..26}
LowerSet == {LowerLetters[i] : i \in 1..26}
LowerOf == [c \in UpperSet |-> LowerLetters[CHOOSE i \in 1..26 : UpperLetters[i] = c]]

LowerChar(c) == IF c \in UpperSet THEN LowerOf[c] ELSE c

\* the Greek letter sigma: capital, small, and small in word-final form
SIGMA_UPPER == "U+03A3"
SIGMA == "U+03C3"
SIGMA_FINAL == "U+03C2"

\* the characters of the model that have a case, and those str.lower() skips
\* when it looks for the letters around a capital sigma
Cased(c) == c \in UpperSet \/ c \in LowerSet \/ c \in {SIGMA_UPPER, SIGMA, SIGMA_FINAL}
CaseIgnorable == {"'", ".", ":"}

\* str.lower() turns a capital sigma into the final form when a cased letter
\* stands before it and none after it
FinalSigma(s, i) ==
  LET before == {j \in 1..(i - 1) : s[j] \notin CaseIgnorable}
      after == {j \in (i + 1)..Len(s) : s[j] \notin CaseIgnorable}
  IN /\ before # {}
     /\ Cased(s[CHOOSE j \in before : \A k \in before : k <= j])
     /\ after # {} => ~Cased(s[CHOOSE j \in after : \A k \in after : j <= k])

\* str.lower()
Lower(s) ==
  [i \in 1..Len(s) |->
     IF s[i] = SIGMA_UPPER
     THEN (IF FinalSigma(s, i) THEN SIGMA_FINAL ELSE SIGMA)
     ELSE LowerChar(s[i])]

IsLetter(c) == c \in UpperSet \/ c \in LowerSet

-----------------------------------------------------------------------------
(* Python slicing x[:n] of a sequence: n >= 0 keeps the first min(n, len)   *)
(* elements, n < 0 drops the last -n elements.                             *)

SliceTo(s, n) ==
  IF n >= 0 THEN SubSeq(s, 1, Min(n, Len(s)))
  ELSE SubSeq(s, 1, Max(0, Len(s) + n))

TYPE_ERROR == <<"T","y","p","e","E","r","r","o","r">>
UNICODE_ENCODE_ERROR ==
  <<"U","n","i","c","o","d","e","E","n","c","o","d","e","E","r","r","o","r">>
URL_PREFIX ==
  <<"h","t","t","p","s",":","/","/","w","w","w",".","g","o","o","g","l","e",
    ".","c","o","m","/","s","e","a","r","c","h","?","q","=">>

\* x[:n] on a Python value: defined on str and list, TypeError otherwise
PySlice(x, n) ==
  IF IsStr(x) THEN PyStr(SliceTo(x.v, n))
  ELSE IF IsList(x) THEN PyList(SliceTo(x.v, n))
  ELSE Raised(TYPE_ERROR)

\* dict.get(key, default)
Get(d, key, default) == IF key \in DOMAIN d THEN d[key] ELSE default

-----------------------------------------------------------------------------
(* Text constants of the module *)

RAW == <<"r","a","w">>
KW_WIFI == <<"w","i","f","i">>
KW_ROOM == <<"r","o","o","m">>

\* "organic", "results", "raw", "body" as Python strings
KeyChars(key) ==
  CASE key = "organic" -> <<"o","r","g","a","n","i","c">>
    [] key = "results" -> <<"r","e","s","u","l","t","s">>
    [] key = "raw" -> RAW
    [] key = "body" -> <<"b","o","d","y">>

\* the alternation of the pattern at line 139
Keywords ==
  { <<"r","e","v","i","e","w">>, <<"h","o","t","e","l">>, KW_WIFI, <<"g","u","e","s","t">>,
        <<"s","t","a","y">>, KW_ROOM, <<"s","e","r","v","i","c","e">>, <<"c","l","e","a","n">> }

\* str(i) for a natural number i
RECURSIVE Digits(_)
Digits(i) ==
  LET d == <<"0","1","2","3","4","5","6","7","8","9">>[(i % 10) + 1]
  IN IF i < 10 THEN <<d>> ELSE Digits(i \div 10) \o <<d>>

\* kw in s (substring test)
IsSubstr(kw, s) ==
  \E i \in 1..(Len(s) - Len(kw) + 1) : SubSeq(s, i, i + Len(kw) - 1) = kw

-----------------------------------------------------------------------------
(* re.findall(r'[A-Z][^.!?]*(?:review|...|clean)[^.!?]*[.!?]', raw,        *)
(* re.IGNORECASE).  A match holds exactly one terminator, its last         *)
(* character, so it lies inside one terminated segment of the text; it     *)
(* starts at the segment's first letter, and exists iff a keyword occurs   *)
(* after that letter and before the terminator (case-insensitively).       *)

\* positions of the terminators of raw, ascending
TerminatorPositions(raw) ==
  LET P == {i \in 1..Len(raw) : raw[i] \in {".", "!", "?"}}
      RECURSIVE Sorted(_)
      Sorted(S) == IF S = {} THEN <<>>
                   ELSE LET m == CHOOSE x \in S : \A y \in S : x <= y
                        IN <<m>> \o Sorted(S \ {m})
  IN Sorted(P)

\* the match inside raw[from..to] (to is a terminator position), or <<>>
SegmentMatch(raw, from, to) ==
  LET L == {i \in from..(to - 1) : IsLetter(raw[i])}
  IN IF L = {} THEN <<>>
     ELSE LET p == CHOOSE x \in L : \A y \in L : x <= y
              rest == Lower(SubSeq(raw, p + 1, to - 1))
          IN IF \E kw \in Keywords : IsSubstr(kw, rest)
             THEN <<SubSeq(raw, p, to)>>
             ELSE <<>>

FindSnippets(raw) ==
  LET T == TerminatorPositions(raw)
      RECURSIVE Scan(_)
      Scan(k) ==
        IF k > Len(T) THEN <<>>
        ELSE SegmentMatch(raw, IF k = 1 THEN 1 ELSE T[k - 1] + 1, T[k]) \o Scan(k + 1)
  IN Scan(1)

-----------------------------------------------------------------------------
(* Texts of the error messages and of the faults the code can raise *)

ATTRIBUTE_ERROR == <<"A","t","t","r","i","b","u","t","e","E","r","r","o","r">>
JSON_DECODE_ERROR == <<"J","S","O","N","D","e","c","o","d","e","E","r","r","o","r">>
CONNECTION_ERROR == <<"C","o","n","n","e","c","t","i","o","n","E","r","r","o","r">>
RESULT_PREFIX == <<"R","e","s","u","l","t"," ">>
MSG_FAILED == <<"S","E","R","P"," ","A","P","I"," ","f","a","i","l","e","d",":"," ">>
MSG_SEP == <<" ","-"," ">>
MSG_TIMEOUT ==
  <<"S","E","R","P"," ","A","P","I"," ","r","e","q","u","e","s","t"," ",
    "t","i","m","e","d"," ","o","u","t"," ","(","3","0","s",")">>
MSG_ERROR == <<"S","E","R","P"," ","A","P","I"," ","e","r","r","o","r",":"," ">>
MSG_NO_TOKEN ==
  <<"B","R","I","G","H","T","D","A","T","A","_","A","P","I","_","T","O","K","E","N",
    " ","n","o","t"," ","f","o","u","n","d"," ","i","n"," ",
    "e","n","v","i","r","o","n","m","e","n","t">>
JSON == <<"j","s","o","n">>
SERP == <<"s","e","r","p">>

-----------------------------------------------------------------------------
(* Provider documents: the texts an HTTP response can carry, each with the   *)
(* value the JSON decoder gives for it.                                     *)

DocOrganicText ==
  <<"{","\"","o","r","g","a","n","i","c","\"",":","[","{","\"","t","i","t",
    "l","e","\"",":","\"","T","1","\"",",","\"","d","e","s","c","r","i","p",
    "t","i","o","n","\"",":","\"">> \o Rep("x", 301) \o <<"\"",",","\"","s",
    "n","i","p","p","e","t","\"",":","\"","s","1","\"",",","\"","l","i","n",
    "k","\"",":","\"","L","1","\"",",","\"","u","r","l","\"",":","\"","U",
    "1","\"","}",",","{","\"","t","i","t","l","e","\"",":","\"","T","2",
    "\"",",","\"","s","n","i","p","p","e","t","\"",":","\"","h","o","t","e",
    "l"," ","w","i","f","i","\"",",","\"","u","r","l","\"",":","\"","U","2",
    "\"","}",",","{","}","]","}">>

DocBothText ==
  <<"{","\"","o","r","g","a","n","i","c","\"",":","[","{","\"","t","i","t",
    "l","e","\"",":","\"","T","2","\"",",","\"","s","n","i","p","p","e","t",
    "\"",":","\"","h","o","t","e","l"," ","w","i","f","i","\"",",","\"","u",
    "r","l","\"",":","\"","U","2","\"","}","]",",","\"","r","e","s","u","l",
    "t","s","\"",":","[","{","\"","t","i","t","l","e","\"",":","\"","R","1",
    "\"",",","\"","s","n","i","p","p","e","t","\"",":","\"","r","s","\"",
    ",","\"","d","e","s","c","r","i","p","t","i","o","n","\"",":","\"","r",
    "d","\"",",","\"","l","i","n","k","\"",":","\"","R","L","\"","}",",",
    "{","\"","t","i","t","l","e","\"",":","\"","R","2","\"",",","\"","d",
    "e","s","c","r","i","p","t","i","o","n","\"",":","\"","r","d","2","\"",
    ",","\"","u","r","l","\"",":","\"","R","U","\"","}","]","}">>

DocOrganicEmptyText ==
  <<"{","\"","o","r","g","a","n","i","c","\"",":","[","]",",","\"","r","e",
    "s","u","l","t","s","\"",":","[","{","\"","t","i","t","l","e","\"",":",
    "\"","R","1","\"",",","\"","s","n","i","p","p","e","t","\"",":","\"",
    "r","s","\"",",","\"","d","e","s","c","r","i","p","t","i","o","n","\"",
    ":","\"","r","d","\"",",","\"","l","i","n","k","\"",":","\"","R","L",
    "\"","}","]",",","\"","r","a","w","\"",":","\"","C","l","e","a","n"," ",
    "r","o","o","m",","," ","n","i","c","e"," ","s","t","a","y"," ","a","n",
    "d"," ","a"," ","g","r","e","a","t"," ","h","o","t","e","l",".","\"",
    "}">>

DocResultsText ==
  <<"{","\"","r","e","s","u","l","t","s","\"",":","[","{","\"","t","i","t",
    "l","e","\"",":","\"","R","1","\"",",","\"","s","n","i","p","p","e","t",
    "\"",":","\"","r","s","\"",",","\"","d","e","s","c","r","i","p","t","i",
    "o","n","\"",":","\"","r","d","\"",",","\"","l","i","n","k","\"",":",
    "\"","R","L","\"","}",",","{","\"","t","i","t","l","e","\"",":","\"",
    "R","2","\"",",","\"","d","e","s","c","r","i","p","t","i","o","n","\"",
    ":","\"","r","d","2","\"",",","\"","u","r","l","\"",":","\"","R","U",
    "\"","}","]","}">>

DocRawText ==
  <<"{","\"","r","a","w","\"",":","\"","O","k"," ","w","i","f","i","."," ",
    "A">> \o Rep("x", 300) \o <<" ","h","o","t","e","l","."," ","N","i","c",
    "e"," ","c","l","e","a","n"," ","r","o","o","m"," ","n","e","a","r"," ",
    "t","h","e"," ","s","e","a"," ","s","i","d","e","!"," ","N","o"," ","k",
    "e","y","w","o","r","d"," ","h","e","r","e","."," ","t","r","a","i","l",
    "i","n","g"," ","s","t","a","y","\"","}">>

DocBodyDictText ==
  <<"{","\"","b","o","d","y","\"",":","{","\"","o","r","g","a","n","i","c",
    "\"",":","[","{","\"","t","i","t","l","e","\"",":","\"","T","2","\"",
    ",","\"","s","n","i","p","p","e","t","\"",":","\"","h","o","t","e","l",
    " ","w","i","f","i","\"",",","\"","u","r","l","\"",":","\"","U","2",
    "\"","}","]","}",",","\"","o","r","g","a","n","i","c","\"",":","[","{",
    "}","]",",","\"","r","e","s","u","l","t","s","\"",":","[","{","\"","t",
    "i","t","l","e","\"",":","\"","R","1","\"",",","\"","s","n","i","p","p",
    "e","t","\"",":","\"","r","s","\"",",","\"","d","e","s","c","r","i","p",
    "t","i","o","n","\"",":","\"","r","d","\"",",","\"","l","i","n","k",
    "\"",":","\"","R","L","\"","}","]","}">>

DocBodyStrText ==
  <<"{","\"","b","o","d","y","\"",":","\"","{","\\","\"","r","e","s","u",
    "l","t","s","\\","\"",":","[","{","\\","\"","t","i","t","l","e","\\",
    "\"",":","\\","\"","R","1","\\","\"",",","\\","\"","s","n","i","p","p",
    "e","t","\\","\"",":","\\","\"","r","s","\\","\"",",","\\","\"","d","e",
    "s","c","r","i","p","t","i","o","n","\\","\"",":","\\","\"","r","d",
    "\\","\"",",","\\","\"","l","i","n","k","\\","\"",":","\\","\"","R","L",
    "\\","\"","}","]","}","\"","}">>

DocBodyTextText ==
  <<"{","\"","b","o","d","y","\"",":","\"","G","r","e","a","t"," ","h","o",
    "t","e","l"," ","w","i","t","h"," ","c","l","e","a","n"," ","r","o","o",
    "m","s"," ","a","n","d"," ","f","r","e","e"," ","w","i","f","i",".",
    "\"","}">>

DocBodyNullText ==
  <<"{","\"","b","o","d","y","\"",":","n","u","l","l",",","\"","o","r","g",
    "a","n","i","c","\"",":","[","{","\"","t","i","t","l","e","\"",":","\"",
    "T","2","\"",",","\"","s","n","i","p","p","e","t","\"",":","\"","h","o",
    "t","e","l"," ","w","i","f","i","\"",",","\"","u","r","l","\"",":","\"",
    "U","2","\"","}","]","}">>

DocBodyNumText ==
  <<"{","\"","b","o","d","y","\"",":","\"","5","\"","}">>

DocUnknownText ==
  <<"{","\"","s","t","a","t","u","s","\"",":","\"","o","k","\"","}">>

DocListText ==
  <<"[","]">>

DocNullText ==
  <<"n","u","l","l">>

DocBadItemText ==
  <<"{","\"","o","r","g","a","n","i","c","\"",":","[","{","\"","t","i","t",
    "l","e","\"",":","\"","T","\"",",","\"","d","e","s","c","r","i","p","t",
    "i","o","n","\"",":","n","u","l","l","}","]","}">>

DocInnerText ==
  <<"{","\"","r","e","s","u","l","t","s","\"",":","[","{","\"","t","i","t",
    "l","e","\"",":","\"","R","1","\"",",","\"","s","n","i","p","p","e","t",
    "\"",":","\"","r","s","\"",",","\"","d","e","s","c","r","i","p","t","i",
    "o","n","\"",":","\"","r","d","\"",",","\"","l","i","n","k","\"",":",
    "\"","R","L","\"","}","]","}">>

DocFiveText ==
  <<"5">>

DocOneText ==
  <<"{","\"","o","r","g","a","n","i","c","\"",":","[","{","\"","t","i","t",
    "l","e","\"",":","\"","T","2","\"",",","\"","s","n","i","p","p","e","t",
    "\"",":","\"","h","o","t","e","l"," ","w","i","f","i","\"",",","\"","u",
    "r","l","\"",":","\"","U","2","\"","}","]","}">>

DocTwoText ==
  <<"{","\"","r","e","s","u","l","t","s","\"",":","[","{","\"","t","i","t",
    "l","e","\"",":","\"","R","1","\"",",","\"","s","n","i","p","p","e","t",
    "\"",":","\"","r","s","\"",",","\"","d","e","s","c","r","i","p","t","i",
    "o","n","\"",":","\"","r","d","\"",",","\"","l","i","n","k","\"",":",
    "\"","R","L","\"","}","]","}">>

DocNoneText ==
  <<"{","\"","o","r","g","a","n","i","c","\"",":","[","]","}">>

\* documents of the ranking specification: the items Pool, Wifi, Rooms and
\* Room in several orders
DocRankABCText ==
  <<"{","\"","o","r","g","a","n","i","c","\"",":","[","{","\"","t","i","t",
    "l","e","\"",":","\"","P","o","o","l","\"",",","\"","s","n","i","p","p",
    "e","t","\"",":","\"","b","i","g"," ","g","a","r","d","e","n","\"",",",
    "\"","l","i","n","k","\"",":","\"","L","A","\"","}",",","{","\"","t",
    "i","t","l","e","\"",":","\"","W","i","f","i","\"",",","\"","s","n","i",
    "p","p","e","t","\"",":","\"","c","l","e","a","n"," ","r","o","o","m",
    "\"","}",",","{","\"","t","i","t","l","e","\"",":","\"","R","o","o","m",
    "s","\"",",","\"","s","n","i","p","p","e","t","\"",":","\"","f","r","e",
    "e"," ","W","I","F","I","\"",",","\"","u","r","l","\"",":","\"","U","C",
    "\"","}","]","}">>

DocRankCBAText ==
  <<"{","\"","o","r","g","a","n","i","c","\"",":","[","{","\"","t","i","t",
    "l","e","\"",":","\"","R","o","o","m","s","\"",",","\"","s","n","i","p",
    "p","e","t","\"",":","\"","f","r","e","e"," ","W","I","F","I","\"",",",
    "\"","u","r","l","\"",":","\"","U","C","\"","}",",","{","\"","t","i",
    "t","l","e","\"",":","\"","W","i","f","i","\"",",","\"","s","n","i","p",
    "p","e","t","\"",":","\"","c","l","e","a","n"," ","r","o","o","m","\"",
    "}",",","{","\"","t","i","t","l","e","\"",":","\"","P","o","o","l","\"",
    ",","\"","s","n","i","p","p","e","t","\"",":","\"","b","i","g"," ","g",
    "a","r","d","e","n","\"",",","\"","l","i","n","k","\"",":","\"","L","A",
    "\"","}","]","}">>

DocRankBACText ==
  <<"{","\"","o","r","g","a","n","i","c","\"",":","[","{","\"","t","i","t",
    "l","e","\"",":","\"","W","i","f","i","\"",",","\"","s","n","i","p","p",
    "e","t","\"",":","\"","c","l","e","a","n"," ","r","o","o","m","\"","}",
    ",","{","\"","t","i","t","l","e","\"",":","\"","P","o","o","l","\"",",",
    "\"","s","n","i","p","p","e","t","\"",":","\"","b","i","g"," ","g","a",
    "r","d","e","n","\"",",","\"","l","i","n","k","\"",":","\"","L","A",
    "\"","}",",","{","\"","t","i","t","l","e","\"",":","\"","R","o","o","m",
    "s","\"",",","\"","s","n","i","p","p","e","t","\"",":","\"","f","r","e",
    "e"," ","W","I","F","I","\"",",","\"","u","r","l","\"",":","\"","U","C",
    "\"","}","]","}">>

DocRankADBCText ==
  <<"{","\"","o","r","g","a","n","i","c","\"",":","[","{","\"","t","i","t",
    "l","e","\"",":","\"","P","o","o","l","\"",",","\"","s","n","i","p","p",
    "e","t","\"",":","\"","b","i","g"," ","g","a","r","d","e","n","\"",",",
    "\"","l","i","n","k","\"",":","\"","L","A","\"","}",",","{","\"","t",
    "i","t","l","e","\"",":","\"","R","o","o","m","\"",",","\"","s","n","i",
    "p","p","e","t","\"",":","\"","s","e","a"," ","v","i","e","w","\"","}",
    ",","{","\"","t","i","t","l","e","\"",":","\"","W","i","f","i","\"",",",
    "\"","s","n","i","p","p","e","t","\"",":","\"","c","l","e","a","n"," ",
    "r","o","o","m","\"","}",",","{","\"","t","i","t","l","e","\"",":","\"",
    "R","o","o","m","s","\"",",","\"","s","n","i","p","p","e","t","\"",":",
    "\"","f","r","e","e"," ","W","I","F","I","\"",",","\"","u","r","l","\"",
    ":","\"","U","C","\"","}","]","}">>

DocRankDCABText ==
  <<"{","\"","o","r","g","a","n","i","c","\"",":","[","{","\"","t","i","t",
    "l","e","\"",":","\"","R","o","o","m","\"",",","\"","s","n","i","p","p",
    "e","t","\"",":","\"","s","e","a"," ","v","i","e","w","\"","}",",","{",
    "\"","t","i","t","l","e","\"",":","\"","R","o","o","m","s","\"",",",
    "\"","s","n","i","p","p","e","t","\"",":","\"","f","r","e","e"," ","W",
    "I","F","I","\"",",","\"","u","r","l","\"",":","\"","U","C","\"","}",
    ",","{","\"","t","i","t","l","e","\"",":","\"","P","o","o","l","\"",",",
    "\"","s","n","i","p","p","e","t","\"",":","\"","b","i","g"," ","g","a",
    "r","d","e","n","\"",",","\"","l","i","n","k","\"",":","\"","L","A",
    "\"","}",",","{","\"","t","i","t","l","e","\"",":","\"","W","i","f","i",
    "\"",",","\"","s","n","i","p","p","e","t","\"",":","\"","c","l","e","a",
    "n"," ","r","o","o","m","\"","}","]","}">>

DocRankCADBText ==
  <<"{","\"","o","r","g","a","n","i","c","\"",":","[","{","\"","t","i","t",
    "l","e","\"",":","\"","R","o","o","m","s","\"",",","\"","s","n","i","p",
    "p","e","t","\"",":","\"","f","r","e","e"," ","W","I","F","I","\"",",",
    "\"","u","r","l","\"",":","\"","U","C","\"","}",",","{","\"","t","i",
    "t","l","e","\"",":","\"","P","o","o","l","\"",",","\"","s","n","i","p",
    "p","e","t","\"",":","\"","b","i","g"," ","g","a","r","d","e","n","\"",
    ",","\"","l","i","n","k","\"",":","\"","L","A","\"","}",",","{","\"",
    "t","i","t","l","e","\"",":","\"","R","o","o","m","\"",",","\"","s","n",
    "i","p","p","e","t","\"",":","\"","s","e","a"," ","v","i","e","w","\"",
    "}",",","{","\"","t","i","t","l","e","\"",":","\"","W","i","f","i","\"",
    ",","\"","s","n","i","p","p","e","t","\"",":","\"","c","l","e","a","n",
    " ","r","o","o","m","\"","}","]","}">>

\* the item Pool and an item whose title holds a capital sigma
DocRankSigmaText ==
  <<"{","\"","o","r","g","a","n","i","c","\"",":","[","{","\"","t","i","t",
    "l","e","\"",":","\"","P","o","o","l","\"",",","\"","s","n","i","p","p",
    "e","t","\"",":","\"","b","i","g"," ","g","a","r","d","e","n","\"",",",
    "\"","l","i","n","k","\"",":","\"","L","A","\"","}",",","{","\"","t",
    "i","t","l","e","\"",":","\"","A",SIGMA_UPPER,"b","\"",",","\"","s","n","i","p",
    "p","e","t","\"",":","\"","c","l","e","a","n"," ","r","o","o","m","\"",
    "}","]","}">>

PlainHtml ==
  <<"<","h","t","m","l",">","H","o","t","e","l"," ","r","o","o","m"," ","w",
    "i","t","h"," ","w","i","f","i"," ","a","n","d"," ","s","e","r","v","i",
    "c","e"," ","i","n","c","l","u","d","e","d",".","<","/","h","t","m","l",
    ">">>
ErrorBody ==
  <<"U","n","a","u","t","h","o","r","i","z","e","d",":"," ">> \o Rep("z",
     250)

\* json.loads / response.json() on the documents above; any other text of the
\* model (PlainHtml, ErrorBody, the body of DocBodyText) is not JSON
JsonLoads(text) ==
  CASE text = DocOrganicText -> (PyDict([organic |-> PyList(<<PyDict([title |-> PyStr(<<"T","1">>),
        description |-> PyStr(Rep("x", 301)), snippet |-> PyStr(<<"s","1">>),
        link |-> PyStr(<<"L","1">>), url |-> PyStr(<<"U","1">>)]),
        PyDict([title |-> PyStr(<<"T","2">>), snippet |-> PyStr(<<"h","o","t",
        "e","l"," ","w","i","f","i">>), url |-> PyStr(<<"U","2">>)]), PyDict(EmptyDict)>>)]))
    [] text = DocBothText -> (PyDict([organic |-> PyList(<<PyDict([title |-> PyStr(<<"T","2">>),
          snippet |-> PyStr(<<"h","o","t","e","l"," ","w","i","f","i">>),
          url |-> PyStr(<<"U","2">>)])>>),
          results |-> PyList(<<PyDict([title |-> PyStr(<<"R","1">>),
          snippet |-> PyStr(<<"r","s">>), description |-> PyStr(<<"r","d">>),
          link |-> PyStr(<<"R","L">>)]), PyDict([title |-> PyStr(<<"R","2">>),
          description |-> PyStr(<<"r","d","2">>), url |-> PyStr(<<"R", "U">>)])>>)]))
    [] text = DocOrganicEmptyText -> (PyDict([organic |-> PyList(<<>>),
          results |-> PyList(<<PyDict([title |-> PyStr(<<"R","1">>),
          snippet |-> PyStr(<<"r","s">>), description |-> PyStr(<<"r","d">>),
          link |-> PyStr(<<"R","L">>)])>>), raw |-> PyStr(<<"C","l","e","a","n",
          " ","r","o","o","m",","," ","n","i","c","e"," ","s","t","a","y"," ","a",
          "n","d"," ","a"," ","g","r","e","a","t"," ","h","o","t","e","l",".">>)]))
    [] text = DocResultsText -> (PyDict([results |-> PyList(<<PyDict([title |-> PyStr(<<"R","1">>),
          snippet |-> PyStr(<<"r","s">>), description |-> PyStr(<<"r","d">>),
          link |-> PyStr(<<"R","L">>)]), PyDict([title |-> PyStr(<<"R","2">>),
          description |-> PyStr(<<"r","d","2">>), url |-> PyStr(<<"R", "U">>)])>>)]))
    [] text = DocRawText -> (PyDict([raw |-> PyStr(<<"O","k"," ","w","i","f","i","."," ",
          "A">> \o Rep("x", 300) \o <<" ","h","o","t","e","l","."," ","N","i","c",
          "e"," ","c","l","e","a","n"," ","r","o","o","m"," ","n","e","a","r"," ",
          "t","h","e"," ","s","e","a"," ","s","i","d","e","!"," ","N","o"," ","k",
          "e","y","w","o","r","d"," ","h","e","r","e","."," ","t","r","a","i","l",
          "i","n","g"," ","s","t","a","y">>)]))
    [] text = DocBodyDictText -> (PyDict([body |-> PyDict([organic |-> PyList(<<PyDict([title |-> PyStr(<<"T",
          "2">>), snippet |-> PyStr(<<"h","o","t","e","l"," ","w","i","f","i">>),
          url |-> PyStr(<<"U","2">>)])>>)]), organic |-> PyList(<<PyDict(EmptyDict)>>),
          results |-> PyList(<<PyDict([title |-> PyStr(<<"R","1">>),
          snippet |-> PyStr(<<"r","s">>), description |-> PyStr(<<"r","d">>),
          link |-> PyStr(<<"R","L">>)])>>)]))
    [] text = DocBodyStrText -> (PyDict([body |-> PyStr(<<"{","\"","r","e","s","u","l","t","s","\"",":",
          "[","{","\"","t","i","t","l","e","\"",":","\"","R","1","\"",",","\"",
          "s","n","i","p","p","e","t","\"",":","\"","r","s","\"",",","\"","d","e",
          "s","c","r","i","p","t","i","o","n","\"",":","\"","r","d","\"",",","\"",
          "l","i","n","k","\"",":","\"","R","L","\"","}","]","}">>)]))
    [] text = DocBodyTextText -> (PyDict([body |-> PyStr(<<"G","r","e","a","t"," ","h","o","t","e","l"," ",
          "w","i","t","h"," ","c","l","e","a","n"," ","r","o","o","m","s"," ","a",
          "n","d"," ","f","r","e","e"," ","w","i","f","i",".">>)]))
    [] text = DocBodyNullText -> (PyDict([body |-> PyNone,
          organic |-> PyList(<<PyDict([title |-> PyStr(<<"T","2">>),
          snippet |-> PyStr(<<"h","o","t","e","l"," ","w","i","f","i">>),
          url |-> PyStr(<<"U","2">>)])>>)]))
    [] text = DocBodyNumText -> (PyDict([body |-> PyStr(<<"5">>)]))
    [] text = DocUnknownText -> (PyDict([status |-> PyStr(<<"o","k">>)]))
    [] text = DocListText -> (PyList(<<>>))
    [] text = DocNullText -> PyNone
    [] text = DocBadItemText -> (PyDict([organic |-> PyList(<<PyDict([title |-> PyStr(<<"T">>),
          description |-> PyNone])>>)]))
    [] text = DocInnerText -> (PyDict([results |-> PyList(<<PyDict([title |-> PyStr(<<"R","1">>),
          snippet |-> PyStr(<<"r","s">>), description |-> PyStr(<<"r","d">>),
          link |-> PyStr(<<"R","L">>)])>>)]))
    [] text = DocFiveText -> (PyNum(5))
    [] text = DocOneText -> (PyDict([organic |-> PyList(<<PyDict([title |-> PyStr(<<"T","2">>),
          snippet |-> PyStr(<<"h","o","t","e","l"," ","w","i","f","i">>),
          url |-> PyStr(<<"U","2">>)])>>)]))
    [] text = DocTwoText -> (PyDict([results |-> PyList(<<PyDict([title |-> PyStr(<<"R","1">>),
          snippet |-> PyStr(<<"r","s">>), description |-> PyStr(<<"r","d">>),
          link |-> PyStr(<<"R","L">>)])>>)]))
    [] text = DocNoneText -> (PyDict([organic |-> PyList(<<>>)]))
    [] text = DocRankABCText -> (PyDict([organic |-> PyList(<<PyDict([title |-> PyStr(<<"P","o","o","l">>),
          snippet |-> PyStr(<<"b","i","g"," ","g","a","r","d","e","n">>),
          link |-> PyStr(<<"L","A">>)]), PyDict([title |-> PyStr(<<"W","i","f", "i">>),
          snippet |-> PyStr(<<"c","l","e","a","n"," ","r","o","o", "m">>)]),
          PyDict([title |-> PyStr(<<"R","o","o","m","s">>),
          snippet |-> PyStr(<<"f","r","e","e"," ","W","I","F","I">>),
          url |-> PyStr(<<"U","C">>)])>>)]))
    [] text = DocRankCBAText -> (PyDict([organic |-> PyList(<<PyDict([title |-> PyStr(<<"R","o","o","m",
          "s">>), snippet |-> PyStr(<<"f","r","e","e"," ","W","I","F","I">>),
          url |-> PyStr(<<"U","C">>)]), PyDict([title |-> PyStr(<<"W","i","f", "i">>),
          snippet |-> PyStr(<<"c","l","e","a","n"," ","r","o","o", "m">>)]),
          PyDict([title |-> PyStr(<<"P","o","o","l">>),
          snippet |-> PyStr(<<"b","i","g"," ","g","a","r","d","e","n">>),
          link |-> PyStr(<<"L","A">>)])>>)]))
    [] text = DocRankBACText -> (PyDict([organic |-> PyList(<<PyDict([title |-> PyStr(<<"W","i","f","i">>),
          snippet |-> PyStr(<<"c","l","e","a","n"," ","r","o","o","m">>)]),
          PyDict([title |-> PyStr(<<"P","o","o","l">>), snippet |-> PyStr(<<"b",
          "i","g"," ","g","a","r","d","e","n">>), link |-> PyStr(<<"L","A">>)]),
          PyDict([title |-> PyStr(<<"R","o","o","m","s">>),
          snippet |-> PyStr(<<"f","r","e","e"," ","W","I","F","I">>),
          url |-> PyStr(<<"U","C">>)])>>)]))
    [] text = DocRankADBCText -> (PyDict([organic |-> PyList(<<PyDict([title |-> PyStr(<<"P","o","o","l">>),
          snippet |-> PyStr(<<"b","i","g"," ","g","a","r","d","e","n">>),
          link |-> PyStr(<<"L","A">>)]), PyDict([title |-> PyStr(<<"R","o","o", "m">>),
          snippet |-> PyStr(<<"s","e","a"," ","v","i","e","w">>)]),
          PyDict([title |-> PyStr(<<"W","i","f","i">>), snippet |-> PyStr(<<"c",
          "l","e","a","n"," ","r","o","o","m">>)]), PyDict([title |-> PyStr(<<"R",
          "o","o","m","s">>), snippet |-> PyStr(<<"f","r","e","e"," ","W","I","F", "I">>),
          url |-> PyStr(<<"U","C">>)])>>)]))
    [] text = DocRankDCABText -> (PyDict([organic |-> PyList(<<PyDict([title |-> PyStr(<<"R","o","o","m">>),
          snippet |-> PyStr(<<"s","e","a"," ","v","i","e","w">>)]),
          PyDict([title |-> PyStr(<<"R","o","o","m","s">>),
          snippet |-> PyStr(<<"f","r","e","e"," ","W","I","F","I">>), url |-> PyStr(<<"U","C">>)]),
          PyDict([title |-> PyStr(<<"P","o","o", "l">>),
          snippet |-> PyStr(<<"b","i","g"," ","g","a","r","d","e","n">>),
          link |-> PyStr(<<"L","A">>)]), PyDict([title |-> PyStr(<<"W","i","f", "i">>),
          snippet |-> PyStr(<<"c","l","e","a","n"," ","r","o","o", "m">>)])>>)]))
    [] text = DocRankCADBText -> (PyDict([organic |-> PyList(<<PyDict([title |-> PyStr(<<"R","o","o","m",
          "s">>), snippet |-> PyStr(<<"f","r","e","e"," ","W","I","F","I">>),
          url |-> PyStr(<<"U","C">>)]), PyDict([title |-> PyStr(<<"P","o","o", "l">>),
          snippet |-> PyStr(<<"b","i","g"," ","g","a","r","d","e","n">>),
          link |-> PyStr(<<"L","A">>)]), PyDict([title |-> PyStr(<<"R","o","o", "m">>),
          snippet |-> PyStr(<<"s","e","a"," ","v","i","e","w">>)]),
          PyDict([title |-> PyStr(<<"W","i","f","i">>), snippet |-> PyStr(<<"c",
          "l","e","a","n"," ","r","o","o","m">>)])>>)]))
    [] text = DocRankSigmaText -> (PyDict([organic |-> PyList(<<PyDict([title |-> PyStr(<<"P","o","o","l">>),
          snippet |-> PyStr(<<"b","i","g"," ","g","a","r","d","e","n">>),
          link |-> PyStr(<<"L","A">>)]), PyDict([title |-> PyStr(<<"A",SIGMA_UPPER, "b">>),
          snippet |-> PyStr(<<"c","l","e","a","n"," ","r","o","o", "m">>)])>>)]))
    [] OTHER -> Raised(JSON_DECODE_ERROR)

-----------------------------------------------------------------------------
(* What requests.post gives back: a response, requests.Timeout, or another   *)
(* exception.                                                              *)

HttpResponse(status, text) == [t |-> "response", status |-> status, text |-> text]
HttpTimeout == [t |-> "timeout"]
HttpRaised(what) == Raised(what)

-----------------------------------------------------------------------------
(* Program constants *)

\* _CACHE_TTL_SEC = 60 * 30
_CACHE_TTL_SEC == 60 * 30
\* the [:300] of the snippet slices
SnippetMax == 300
\* the response.text[:200] of the failure message
ErrorBodyMax == 200
\* the len(snippet) > 30 filter of the raw-text strategy
MinRawLen == 30
\* response.status_code == 200
HttpOk == 200

-----------------------------------------------------------------------------
(* Decoding and unwrapping, lines 95-110 *)

\* lines 95-98: response.json() when the format is json, else {"raw": text}
Decode(format_type, response) ==
  IF Lower(format_type) = JSON
  THEN JsonLoads(response.text)
  ELSE PyDict([raw |-> PyStr(response.text)])

\* lines 101-110: the "body" envelope
Unwrap(data) ==
  IF IsDict(data) /\ "body" \in DOMAIN data.v
  THEN LET body == data.v.body
       IN IF IsDict(body) THEN body
          ELSE IF IsStr(body)
               THEN LET inner == JsonLoads(body.v)
                    IN IF IsRaised(inner) THEN PyDict([raw |-> body]) ELSE inner
               ELSE data
  ELSE data

-----------------------------------------------------------------------------
(* Extraction, lines 112-146 *)

\* the operand of "in" must be a container
Iterable(data) == data.t \in {"dict", "list", "str"}

\* key in data, for a dict (key test), a list (element test), a str (substring)
In(key, data) ==
  IF IsDict(data) THEN key \in DOMAIN data.v
  ELSE IF IsList(data)
       THEN \E i \in 1..Len(data.v) :
              IsStr(data.v[i]) /\ data.v[i].v = KeyChars(key)
       ELSE IsSubstr(KeyChars(key), data.v)

\* a variant of ItemResult: the snippet is taken whole
ItemResult_Whole(item, first, second) ==
  IF ~IsDict(item) THEN Raised(ATTRIBUTE_ERROR)
  ELSE LET snippet == Get(item.v, first, Get(item.v, second, PyStr(<<>>)))
       IN IF ~(IsStr(snippet) \/ IsList(snippet)) THEN Raised(TYPE_ERROR)
          ELSE PyDict([title |-> Get(item.v, "title", PyStr(<<>>)),
                       snippet |-> snippet,
                       link |-> Get(item.v, "link",
                                    Get(item.v, "url", PyStr(<<>>)))])

\* lines 118-122 and 127-131: one result dict from one item; first and second
\* are the snippet fields in the order the strategy prefers them
ItemResult(item, first, second) ==
  IF ~IsDict(item) THEN Raised(ATTRIBUTE_ERROR)
  ELSE LET snippet ==
             PySlice(Get(item.v, first, Get(item.v, second, PyStr(<<>>))),
                     SnippetMax)
       IN IF IsRaised(snippet) THEN snippet
          ELSE PyDict([title |-> Get(item.v, "title", PyStr(<<>>)),
                       snippet |-> snippet,
                       link |-> Get(item.v, "link",
                                    Get(item.v, "url", PyStr(<<>>)))])

\* lines 117-122 and 126-131: for item in lst[:num_results]: results.append(...)
ExtractItems(lst, num_results, first, second) ==
  LET sl == PySlice(lst, num_results)
  IN IF IsRaised(sl) THEN sl
     ELSE IF IsStr(sl)
          THEN IF sl.v = <<>> THEN PyList(<<>>) ELSE Raised(ATTRIBUTE_ERROR)
          ELSE LET rs == [i \in 1..Len(sl.v) |-> ItemResult(sl.v[i], first, second)]
                   bad == {i \in 1..Len(rs) : IsRaised(rs[i])}
               IN IF bad = {} THEN PyList(rs)
                  ELSE rs[CHOOSE i \in bad : \A j \in bad : i <= j]

\* lines 135-146: the raw-text strategy
ExtractRaw(raw, num_results) ==
  IF ~IsStr(raw) THEN Raised(TYPE_ERROR)
  ELSE LET snippets == SliceTo(FindSnippets(raw.v), num_results)
           RECURSIVE Build(_)
           Build(i) ==
             IF i > Len(snippets) THEN <<>>
             ELSE (IF Len(snippets[i]) > MinRawLen
                   THEN <<PyDict([title |-> PyStr(RESULT_PREFIX \o Digits(i)),
                                  snippet |-> PyStr(SliceTo(snippets[i], SnippetMax)),
                                  link |-> PyStr(<<>>)])>>
                   ELSE <<>>) \o Build(i + 1)
       IN PyList(Build(1))

\* a variant of Extract: the results array is tried before the organic one
Extract_ResultsFirst(data, num_results) ==
  IF IsRaised(data) THEN data
  ELSE IF ~Iterable(data) THEN Raised(TYPE_ERROR)
  ELSE IF In("results", data)
       THEN IF IsDict(data)
            THEN ExtractItems(data.v.results, num_results, "snippet", "description")
            ELSE Raised(TYPE_ERROR)
  ELSE IF In("organic", data)
       THEN IF IsDict(data)
            THEN ExtractItems(data.v.organic, num_results, "description", "snippet")
            ELSE Raised(TYPE_ERROR)
  ELSE IF In("raw", data)
       THEN IF IsDict(data)
            THEN ExtractRaw(data.v.raw, num_results)
            ELSE Raised(TYPE_ERROR)
  ELSE PyList(<<>>)

\* lines 113-146: the strategies in the order of the if/elif chain
Extract(data, num_results) ==
  IF IsRaised(data) THEN data
  ELSE IF ~Iterable(data) THEN Raised(TYPE_ERROR)
  ELSE IF In("organic", data)
       THEN IF IsDict(data)
            THEN ExtractItems(data.v.organic, num_results, "description", "snippet")
            ELSE Raised(TYPE_ERROR)
  ELSE IF In("results", data)
       THEN IF IsDict(data)
            THEN ExtractItems(data.v.results, num_results, "snippet", "description")
            ELSE Raised(TYPE_ERROR)
  ELSE IF In("raw", data)
       THEN IF IsDict(data)
            THEN ExtractRaw(data.v.raw, num_results)
            ELSE Raised(TYPE_ERROR)
  ELSE PyList(<<>>)

-----------------------------------------------------------------------------
(* The responses search_google_serp returns *)

\* a variant of Failure: the failure keeps the error field empty
Failure_NoError(msg) == [success |-> FALSE, results |-> <<>>, error |-> PyNone]

\* lines 57-61, 164-168, 171-175, 177-181
Failure(msg) == [success |-> FALSE, results |-> <<>>, error |-> PyStr(msg)]
\* lines 148-152
Success(results) == [success |-> TRUE, results |-> results, error |-> PyNone]

\* lines 94-181: what the call returns for what requests.post gave back
Outcome(http, format_type, num_results) ==
  IF http.t = "timeout" THEN Failure(MSG_TIMEOUT)
  ELSE IF http.t = "raised" THEN Failure(MSG_ERROR \o http.v)
  ELSE IF http.status = HttpOk
       THEN LET results == Extract(Unwrap(Decode(format_type, http)), num_results)
            IN IF IsRaised(results) THEN Failure(MSG_ERROR \o results.v)
               ELSE Success(results.v)
       ELSE Failure(MSG_FAILED \o Digits(http.status) \o MSG_SEP
                    \o SliceTo(http.text, ErrorBodyMax))

-----------------------------------------------------------------------------
(* format_serp_results, lines 184-216.  A keyword list is None or a list of  *)
(* texts; the results are the dicts search_google_serp builds.              *)

NL == "\n"
NO_RESULTS == <<"N","o"," ","r","e","s","u","l","t","s"," ","f","o","u","n","d",".">>
HEADER_PREFIX ==
  <<"=","=","="," ","G","o","o","g","l","e"," ","S","e","a","r","c","h"," ",
    "R","e","s","u","l","t","s"," ","(">>
HEADER_SUFFIX == <<" ","f","o","u","n","d",")"," ","=","=","=">>
SNIPPET_LABEL == <<" "," "," "," ","S","n","i","p","p","e","t",":"," ">>
URL_LABEL == <<" "," "," "," ","U","R","L",":"," ">>
NO_TITLE == <<"N","o"," ","t","i","t","l","e">>
NO_SNIPPET == <<"N","o"," ","s","n","i","p","p","e","t">>

\* lines 198-200: the number of keywords found in the lowered title and snippet
relevance_score(r, topic_keywords) ==
  LET text == Lower(Get(r.v, "title", PyStr(<<>>)).v \o <<" ">>
                      \o Get(r.v, "snippet", PyStr(<<>>)).v)
  IN Cardinality({i \in 1..Len(topic_keywords.v) :
                    IsSubstr(Lower(topic_keywords.v[i].v), text)})

\* line 202: sorted(results, key=relevance_score, reverse=True), a stable sort:
\* each result goes behind the earlier ones that score at least as much
RECURSIVE Sorted(_, _)
Sorted(results, topic_keywords) ==
  IF results = <<>> THEN <<>>
  ELSE LET r == results[Len(results)]
           done == Sorted(SubSeq(results, 1, Len(results) - 1), topic_keywords)
           ahead == {j \in 1..Len(done) :
                       relevance_score(done[j], topic_keywords)
                         >= relevance_score(r, topic_keywords)}
       IN SubSeq(done, 1, Cardinality(ahead)) \o <<r>>
            \o SubSeq(done, Cardinality(ahead) + 1, Len(done))

\* lines 208-213: the block of the i-th result
Entry(i, r) ==
  LET link == Get(r.v, "link", PyNone)
  IN <<"[">> \o Digits(i) \o <<"]", " ">> \o Get(r.v, "title", PyStr(NO_TITLE)).v
       \o <<NL>>
       \o SNIPPET_LABEL \o Get(r.v, "snippet", PyStr(NO_SNIPPET)).v \o <<NL>>
       \o (IF link # PyNone /\ link.v # <<>> THEN URL_LABEL \o link.v \o <<NL>>
           ELSE <<>>)
       \o <<NL>>

\* lines 205-216: the header and the blocks of the results in the given order
RECURSIVE Entries(_, _)
Entries(results, i) ==
  IF i > Len(results) THEN <<>> ELSE Entry(i, results[i]) \o Entries(results, i + 1)
Rendering(results) ==
  HEADER_PREFIX \o Digits(Len(results)) \o HEADER_SUFFIX \o <<NL, NL>>
    \o Entries(results, 1)

\* lines 194-216
format_serp_results(results, topic_keywords) ==
  IF results = <<>> THEN NO_RESULTS
  ELSE IF IsList(topic_keywords) /\ topic_keywords.v # <<>>
       THEN Rendering(Sorted(results, topic_keywords))
       ELSE Rendering(results)

-----------------------------------------------------------------------------
(* State *)

VARIABLES
  CACHE,   \* _CACHE: cache key -> [value |-> response object, ts |-> time]
  heap,    \* the response dicts alive in the process, by object identity
  now,     \* time.time(), in seconds
  posts,   \* the number of requests.post calls made (the transport's counter)
  calls,   \* the number of search_google_serp calls started
  pc,      \* per caller: where its call of search_google_serp stands
  frame    \* per caller: the arguments and locals of its current or last call

vars == <<CACHE, heap, now, posts, calls, pc, frame>>

\* the call sites that hold a response
Callers == {"c1", "c2"}

\* a variant of Falsy: no value counts as missing (the gate never closes)
Falsy_Never(x) == FALSE

\* a variant of Falsy: only an unset variable counts as missing
Falsy_UnsetOnly(x) == x = PyNone

\* bool(x) is False: None and the empty string
Falsy(x) == x = PyNone \/ (IsStr(x) /\ x.v = <<>>)

\* str(n) for an integer n
IntStr(n) == IF n < 0 THEN <<"-">> \o Digits(-n) ELSE Digits(n)

\* a variant of CacheKey: the count is left out of the key
CacheKey_NoCount(query, num_results) ==
  SERP \o <<":", ":">> \o Lower(query)

\* line 64: f"serp::{query.lower()}::{num_results}"
CacheKey(query, num_results) ==
  SERP \o <<":", ":">> \o Lower(query) \o <<":", ":">> \o IntStr(num_results)

\* a lone surrogate code point: a character of a str that UTF-8 cannot encode
SURROGATE == "U+D800"
\* the characters urllib.parse.quote leaves as they are
QuoteSafe == UpperSet \cup LowerSet \cup {"0", "1", "2", "3", "4", "5", "6", "7", "8",
      "9"} \cup {"_", ".", "-", "~", "/"}
\* the percent-escapes of the other characters the queries of the model use
QuoteEscape(c) ==
  CASE c = " " -> <<"%", "2", "0">>
    [] c = ":" -> <<"%", "3", "A">>
    [] c = "?" -> <<"%", "3", "F">>
    [] c = SIGMA_UPPER -> <<"%", "C", "E", "%", "A", "3">>
    [] c = SIGMA -> <<"%", "C", "F", "%", "8", "3">>
    [] c = SIGMA_FINAL -> <<"%", "C", "F", "%", "8", "2">>

\* line 74: urllib.parse.quote(query) encodes the text as UTF-8 first and raises
\* UnicodeEncodeError on a lone surrogate
RECURSIVE QuoteFrom(_, _)
QuoteFrom(query, i) ==
  IF i > Len(query) THEN <<>>
  ELSE (IF query[i] \in QuoteSafe THEN <<query[i]>> ELSE QuoteEscape(query[i]))
       \o QuoteFrom(query, i + 1)
Quote(query) ==
  IF \E i \in 1..Len(query) : query[i] = SURROGATE
  THEN Raised(UNICODE_ENCODE_ERROR)
  ELSE PyStr(QuoteFrom(query, 1))

\* line 75: f"https://www.google.com/search?q={encoded_query}&num={num_results}&hl=en"
GoogleUrl(encoded_query, num_results) ==
  URL_PREFIX \o encoded_query \o <<"&","n","u","m","=">> \o IntStr(num_results) \o <<"&","h","l","=","e","n">>

\* line 21: _CACHE.get(key)
CacheLookup(cache, key) == IF key \in DOMAIN cache THEN cache[key] ELSE PyNone

\* a variant of Expired: the entry expires when its age reaches the TTL
Expired_AtTTL(t, ts) == t - ts >= _CACHE_TTL_SEC

\* line 25: time.time() - ts > _CACHE_TTL_SEC
Expired(t, ts) == t - ts > _CACHE_TTL_SEC

\* a variant of CachePop: the whole cache is emptied, as by _CACHE.clear()
CachePop_All(cache, key) == [k \in {} |-> PyNone]

\* line 26: _CACHE.pop(key, None)
CachePop(cache, key) == [k \in DOMAIN cache \ {key} |-> cache[k]]

\* a variant of CacheSet: the write is lost
CacheSet_Lost(cache, key, value, t) == cache

\* a variant of CacheSet: a write over an entry keeps the entry's timestamp
CacheSet_KeepsStamp(cache, key, value, t) ==
  [k \in DOMAIN cache \cup {key} |->
     IF k = key
     THEN [value |-> value, ts |-> IF key \in DOMAIN cache THEN cache[key].ts ELSE t]
     ELSE cache[k]]

\* line 33: _CACHE[key] = (value, time.time())
CacheSet(cache, key, value, t) ==
  [k \in DOMAIN cache \cup {key} |->
     IF k = key THEN [value |-> value, ts |-> t] ELSE cache[k]]

\* a variant of Cacheable: every response of a 200 answer is stored
Cacheable_Always(result) == TRUE

\* line 155: "if results:" decides whether the response is stored
Cacheable(result) == result.results # <<>>

\* the frame of a caller that has made no call yet
NoFrame ==
  [query |-> <<>>, num_results |-> 0, country |-> "", api_token |-> PyNone,
   seq |-> 0, item |-> PyNone, t |-> 0, format_type |-> <<>>, url |-> <<>>,
   response |-> PyNone, ret |-> 0, topic_keywords |-> PyNone,
   formatted |-> PyNone, op |-> "", key |-> <<>>]

\* the objects still referenced once caller c lets go of its last response:
\* the cached ones, the ones other callers hold, the ones a call in progress
\* has read from the cache
Live(c, cache) ==
  {cache[k].value : k \in DOMAIN cache}
    \cup {frame[d].ret : d \in Callers \ {c}}
    \cup {frame[d].item.value :
            d \in {e \in Callers \ {c} : pc[e] \in {"check", "pop"}}}

Init ==
  /\ CACHE = [k \in {} |-> PyNone]
  /\ heap = [o \in {} |-> PyNone]
  /\ now = 0
  /\ posts = 0
  /\ calls = 0
  /\ pc = [c \in Callers |-> "idle"]
  /\ frame = [c \in Callers |-> NoFrame]

-----------------------------------------------------------------------------
(* search_google_serp, one action per step between two accesses of shared   *)
(* state.  A call whose position is "done" has returned frame[c].ret; one   *)
(* whose position is "raised" has ended with an exception reaching its      *)
(* caller.                                                                 *)

\* caller c is not inside a call
Returned(c) == pc[c] \in {"idle", "done", "raised"}

\* lines 55-65 and 21-23: the credential gate, the cache key, the read of _CACHE
Call(c, query, num_results, country, api_token, sequential, maxCalls) ==
  /\ Returned(c)
  /\ sequential => \A d \in Callers : Returned(d)
  /\ calls < maxCalls
  /\ calls' = calls + 1
  /\ LET id == calls + 1
         kept == [o \in DOMAIN heap \cap Live(c, CACHE) |-> heap[o]]
         f == [NoFrame EXCEPT !.query = query, !.num_results = num_results,
                              !.country = country, !.api_token = api_token,
                              !.seq = id]
         item == CacheLookup(CACHE, CacheKey(query, num_results))
     IN IF Falsy(api_token)
        THEN /\ heap' = [o \in DOMAIN kept \cup {id} |->
                           IF o = id THEN Failure(MSG_NO_TOKEN) ELSE kept[o]]
             /\ frame' = [frame EXCEPT ![c] = [f EXCEPT !.ret = id]]
             /\ pc' = [pc EXCEPT ![c] = "done"]
        ELSE /\ heap' = kept
             /\ frame' = [frame EXCEPT ![c] = [f EXCEPT !.item = item]]
             /\ pc' = [pc EXCEPT ![c] = IF item = PyNone THEN "post" ELSE "check"]
  /\ UNCHANGED <<CACHE, now, posts>>

\* lines 24-28 and 66-68: the age test; a fresh entry's value is returned
Check(c) ==
  /\ pc[c] = "check"
  /\ IF Expired(now, frame[c].item.ts)
     THEN /\ pc' = [pc EXCEPT ![c] = "pop"]
          /\ frame' = [frame EXCEPT ![c].t = now]
     ELSE /\ pc' = [pc EXCEPT ![c] = "done"]
          /\ frame' = [frame EXCEPT ![c].t = now, ![c].ret = frame[c].item.value]
  /\ UNCHANGED <<CACHE, heap, now, posts, calls>>

\* lines 26-27: the expired entry is removed and the lookup reports a miss
Pop(c) ==
  /\ pc[c] = "pop"
  /\ CACHE' = CachePop(CACHE, CacheKey(frame[c].query, frame[c].num_results))
  /\ pc' = [pc EXCEPT ![c] = "post"]
  /\ UNCHANGED <<heap, now, posts, calls, frame>>

\* a variant of Post: the country is sent along as the gl parameter of the URL
Post_WithCountry(c, format_type) ==
  /\ pc[c] = "post"
  /\ LET encoded_query == Quote(frame[c].query)
     IN IF IsRaised(encoded_query)
        THEN /\ pc' = [pc EXCEPT ![c] = "raised"]
             /\ UNCHANGED <<posts, frame>>
        ELSE /\ posts' = posts + 1
             /\ frame' = [frame EXCEPT
                            ![c].format_type = format_type,
                            ![c].url = GoogleUrl(encoded_query.v, frame[c].num_results)
                                         \o <<"&", "g", "l", "=", frame[c].country>>]
             /\ pc' = [pc EXCEPT ![c] = "wait"]
  /\ UNCHANGED <<CACHE, heap, now, calls>>

\* lines 70-92: the settings are read, the URL is built, the request is sent.
\* Line 74 stands before the try block: what it raises reaches the caller.
Post(c, format_type) ==
  /\ pc[c] = "post"
  /\ LET encoded_query == Quote(frame[c].query)
     IN IF IsRaised(encoded_query)
        THEN /\ pc' = [pc EXCEPT ![c] = "raised"]
             /\ UNCHANGED <<posts, frame>>
        ELSE /\ posts' = posts + 1
             /\ frame' = [frame EXCEPT
                            ![c].format_type = format_type,
                            ![c].url = GoogleUrl(encoded_query.v, frame[c].num_results)]
             /\ pc' = [pc EXCEPT ![c] = "wait"]
  /\ UNCHANGED <<CACHE, heap, now, calls>>

\* lines 80-181: the provider's answer, the result, the cache write, the return
Respond(c, http) ==
  /\ pc[c] = "wait"
  /\ LET f == frame[c]
         result == Outcome(http, f.format_type, f.num_results)
     IN /\ heap' = [o \in DOMAIN heap \cup {f.seq} |->
                      IF o = f.seq THEN result ELSE heap[o]]
        /\ CACHE' = IF result.success /\ Cacheable(result)
                    THEN CacheSet(CACHE, CacheKey(f.query, f.num_results), f.seq, now)
                    ELSE CACHE
        /\ frame' = [frame EXCEPT ![c].response = http, ![c].ret = f.seq]
  /\ pc' = [pc EXCEPT ![c] = "done"]
  /\ UNCHANGED <<now, posts, calls>>

\* the clock advances.  Its steps are minutes long and a call lasts at most the
\* 30 s of the request's timeout, so no step falls inside a call.
Tick(d, maxTime) ==
  /\ \A c \in Callers : Returned(c)
  /\ now + d <= maxTime
  /\ now' = now + d
  /\ UNCHANGED <<CACHE, heap, posts, calls, pc, frame>>

\* the caller renders the results of the response it holds, all of them
\* dicts of texts: format_serp_results(response["results"], topic_keywords)
Format(c, topic_keywords) ==
  /\ pc[c] = "done"
  /\ \A i \in 1..Len(heap[frame[c].ret].results) :
       \A k \in {"title", "snippet", "link"} :
         IsStr(heap[frame[c].ret].results[i].v[k])
  /\ frame' = [frame EXCEPT
                 ![c].topic_keywords = topic_keywords,
                 ![c].formatted =
                   PyStr(format_serp_results(heap[frame[c].ret].results,
                                             topic_keywords))]
  /\ UNCHANGED <<CACHE, heap, now, posts, calls, pc>>

\* lines 19-28, called on its own: _cache_get(key).  The frame keeps the entry
\* that was read, the time of the age test and the value returned (0: None).
_cache_get(c, key, maxCalls) ==
  /\ \A d \in Callers : Returned(d)
  /\ calls < maxCalls
  /\ calls' = calls + 1
  /\ LET item == CacheLookup(CACHE, key)
         miss == item = PyNone \/ Expired(now, item.ts)
     IN /\ CACHE' = IF item # PyNone /\ Expired(now, item.ts)
                    THEN CachePop(CACHE, key) ELSE CACHE
        /\ frame' = [frame EXCEPT ![c] =
                       [NoFrame EXCEPT !.op = "get", !.key = key, !.item = item,
                                       !.t = now, !.seq = calls + 1,
                                       !.ret = IF miss THEN 0 ELSE item.value]]
  /\ pc' = [pc EXCEPT ![c] = "done"]
  /\ UNCHANGED <<heap, now, posts>>

\* lines 31-33, called on its own: _cache_set(key, value).  The frame also
\* records the entry the write replaced, which the code does not read.
_cache_set(c, key, value, maxCalls) ==
  /\ \A d \in Callers : Returned(d)
  /\ calls < maxCalls
  /\ calls' = calls + 1
  /\ CACHE' = CacheSet(CACHE, key, value, now)
  /\ frame' = [frame EXCEPT ![c] =
                 [NoFrame EXCEPT !.op = "set", !.key = key, !.t = now,
                                 !.item = CacheLookup(CACHE, key),
                                 !.seq = calls + 1, !.ret = value]]
  /\ pc' = [pc EXCEPT ![c] = "done"]
  /\ UNCHANGED <<heap, now, posts>>

\* a caller edits the response it was handed: response["results"].clear()
Mutate(c) ==
  /\ pc[c] = "done"
  /\ heap[frame[c].ret].results # <<>>
  /\ heap' = [heap EXCEPT ![frame[c].ret].results = <<>>]
  /\ UNCHANGED <<CACHE, now, posts, calls, pc, frame>>

-----------------------------------------------------------------------------
(* Inputs and bounds *)

\* the number of calls a behaviour makes
MaxCalls == 3
\* the number of clock steps a behaviour takes
MaxTicks == 4
\* the clock advances by 15 minutes, or by 15 minutes and a second
TickSteps == {900, 901}
MaxTime == MaxTicks * 901

QueryMixed == <<"W","i","F","i">>
QueryLower == <<"w","i","f","i">>
QueryBad == <<"w","i", SURROGATE>>
Token == PyStr(<<"t","o","k">>)
Tokens == {PyNone, PyStr(<<>>), Token}

\* the provider's answers of the cache specification: two different non-empty
\* result lists, an empty one, a refusal and a timeout
Answers ==
  { HttpResponse(200, DocOneText), HttpResponse(200, DocTwoText),
    HttpResponse(200, DocNoneText), HttpResponse(500, ErrorBody), HttpTimeout }

-----------------------------------------------------------------------------
(* The single-threaded program: calls follow one another, the clock runs.   *)

Next ==
  \/ \E c \in Callers, tok \in Tokens :
       Call(c, QueryLower, 1, "us", tok, TRUE, MaxCalls)
  \/ \E c \in Callers : Check(c)
  \/ \E c \in Callers : Pop(c)
  \/ \E c \in Callers : Post(c, JSON)
  \/ \E c \in Callers, http \in Answers : Respond(c, http)
  \/ \E d \in TickSteps : Tick(d, MaxTime)

Spec == Init /\ [][Next]_vars

-----------------------------------------------------------------------------
(* The extraction specification: one caller, every kind of provider answer,  *)
(* every format setting, counts below, at and above the list lengths.  No    *)
(* time passes, so a stored entry stays fresh.                              *)

\* the number of calls a behaviour of the extraction specification makes
MaxExtractCalls == 2
\* the largest num_results of the extraction specification
MaxNum == 3

ExtractNext ==
  \/ \E q \in {QueryLower, QueryBad}, n \in {-1, 0, 2, MaxNum}, tok \in Tokens :
       Call("c1", q, n, "us", tok, TRUE, MaxExtractCalls)
  \/ Check("c1")
  \/ \E fmt \in {JSON, <<"J","S","O","N">>, RAW} : Post("c1", fmt)
  \/ \E http \in { HttpResponse(200, text) : text \in { DocOrganicText, DocBothText,
        DocOrganicEmptyText, DocResultsText, DocRawText, DocBodyDictText, DocBodyStrText,
        DocBodyTextText, DocBodyNullText, DocBodyNumText, DocUnknownText, DocListText, DocNullText,
        DocBadItemText, PlainHtml } } \cup { HttpResponse(500, ErrorBody), HttpResponse(404,
        DocUnknownText), HttpTimeout, HttpRaised(CONNECTION_ERROR) } : Respond("c1", http)

ExtractSpec == Init /\ [][ExtractNext]_vars

-----------------------------------------------------------------------------
(* The program with callers that edit what they were handed: a caller may    *)
(* clear the result list of the response its last call returned.            *)

AliasNext ==
  \/ \E c \in Callers : Call(c, QueryLower, 1, "us", Token, TRUE, MaxCalls)
  \/ \E c \in Callers : Check(c)
  \/ \E c \in Callers : Pop(c)
  \/ \E c \in Callers : Post(c, JSON)
  \/ \E c \in Callers, http \in Answers : Respond(c, http)
  \/ \E d \in TickSteps : Tick(d, MaxTime)
  \/ \E c \in Callers : Mutate(c)

AliasSpec == Init /\ [][AliasNext]_vars

-----------------------------------------------------------------------------
(* The program under threads: two callers whose calls interleave at every    *)
(* access of _CACHE.                                                        *)

\* the number of calls a behaviour of the threaded specification makes
MaxConcCalls == 3
\* one clock step that outlives the TTL
LongStep == _CACHE_TTL_SEC + 1

ConcAnswers ==
  { HttpResponse(200, DocOneText), HttpResponse(200, DocTwoText),
    HttpResponse(200, DocNoneText) }

ConcNext ==
  \/ \E c \in Callers : Call(c, QueryLower, 1, "us", Token, FALSE, MaxConcCalls)
  \/ \E c \in Callers : Check(c)
  \/ \E c \in Callers : Pop(c)
  \/ \E c \in Callers : Post(c, JSON)
  \/ \E c \in Callers, http \in ConcAnswers : Respond(c, http)
  \/ Tick(LongStep, LongStep)

ConcSpec == Init /\ [][ConcNext]_vars

-----------------------------------------------------------------------------
(* The argument specification: calls that differ in the case of the query,  *)
(* in the count and in the country, one after the other, within the TTL.    *)

\* the number of calls a behaviour of the argument specification makes
MaxInputCalls == 2

InputNext ==
  \/ \E c \in Callers, q \in {QueryMixed, QueryLower, <<"A", SIGMA_UPPER>>, <<"a", SIGMA>>},
        n \in {1, 2}, country \in {"us", "de"} :
       Call(c, q, n, country, Token, TRUE, MaxInputCalls)
  \/ \E c \in Callers : Check(c)
  \/ \E c \in Callers : Post(c, JSON)
  \/ \E c \in Callers, http \in ConcAnswers : Respond(c, http)

InputSpec == Init /\ [][InputNext]_vars

-----------------------------------------------------------------------------
(* The ranking specification: one caller fetches result lists in several     *)
(* orders and renders them with and without keywords.                       *)

\* the number of calls a behaviour of the ranking specification makes
MaxRankCalls == 2

KW_ROOM_UPPER == <<"R","O","O","M">>
KW_WIFI_MIXED == <<"W","i","F","i">>

RankNext ==
  \/ \E n \in {2, 4} : Call("c1", QueryLower, n, "us", Token, TRUE, MaxRankCalls)
  \/ Check("c1")
  \/ Post("c1", JSON)
  \/ \E text \in { DocRankABCText, DocRankCBAText, DocRankBACText, DocRankADBCText,
        DocRankDCABText, DocRankCADBText, DocRankSigmaText } : Respond("c1", HttpResponse(200,
        text))
  \/ \E topic_keywords \in { PyNone, PyList(<<>>), PyList(<<PyStr(KW_WIFI), PyStr(KW_ROOM)>>),
        PyList(<<PyStr(KW_ROOM_UPPER), PyStr(KW_WIFI_MIXED)>>),
        PyList(<<PyStr(<<"p","o","o","l">>)>>), PyList(<<PyStr(KW_ROOM)>>), PyList(<<PyStr(<<"A",
        SIGMA_UPPER>>)>>) } : Format("c1", topic_keywords)

RankSpec == Init /\ [][RankNext]_vars

-----------------------------------------------------------------------------
(* The cache store on its own: gets and sets of two keys in any order, one   *)
(* after the other, while the clock runs.                                   *)

\* the number of gets and sets a behaviour of the store specification makes
MaxStoreCalls == 3
\* the number of clock steps it takes
MaxStoreTicks == 4

StoreKeys == {CacheKey(QueryLower, 1), CacheKey(QueryLower, 2)}

StoreNext ==
  \/ \E key \in StoreKeys : _cache_get("c1", key, MaxStoreCalls)
  \/ \E key \in StoreKeys, value \in {1, 2} :
       _cache_set("c2", key, value, MaxStoreCalls)
  \/ \E d \in TickSteps : Tick(d, MaxStoreTicks * 901)

StoreSpec == Init /\ [][StoreNext]_vars

-----------------------------------------------------------------------------
(* The program with two keys: one caller asks for one result, the other for  *)
(* two, so calls for different keys interleave while the calls for one key   *)
(* follow one another.  The clock runs between the calls.                   *)

\* the number of calls a behaviour of the two-key specification makes
MaxLazyCalls == 3
\* the number of clock steps it takes, each longer than the TTL
MaxLazyTicks == 2

LazyNext ==
  \/ \E tok \in {PyNone, Token} :
       \/ Call("c1", QueryLower, 1, "us", tok, FALSE, MaxLazyCalls)
       \/ Call("c2", QueryLower, 2, "us", tok, FALSE, MaxLazyCalls)
  \/ \E c \in Callers : Check(c)
  \/ \E c \in Callers : Pop(c)
  \/ \E c \in Callers : Post(c, JSON)
  \/ \E c \in Callers, http \in Answers : Respond(c, http)
  \/ Tick(LongStep, MaxLazyTicks * LongStep)

LazySpec == Init /\ [][LazyNext]_vars

-----------------------------------------------------------------------------
(* Vocabulary of the properties *)

\* caller c holds the response of its last call
Done(c) == pc[c] = "done"
\* the response caller c holds
Ret(c) == heap[frame[c].ret]
\* the cache key of caller c's call
Key(c) == CacheKey(frame[c].query, frame[c].num_results)
\* caller c's call received an answer of the provider (it sent a request)
Posted(c) == frame[c].response # PyNone
\* caller c's call was made with BRIGHTDATA_API_TOKEN set to a non-empty text
Configured(c) == frame[c].api_token # PyNone /\ frame[c].api_token # PyStr(<<>>)
\* caller c's call found an entry under its key
Found(c) == frame[c].item # PyNone
\* the age of the entry caller c's call found, when the call looked at it
Age(c) == frame[c].t - frame[c].item.ts
\* a response that is stored: success with a non-empty result list
NonEmpty(r) == r.success /\ r.results # <<>>
\* d's call is the call right after c's call, for the same key
Repeats(c, d) ==
  /\ c # d /\ Done(c) /\ Done(d)
  /\ Key(c) = Key(d)
  /\ frame[d].seq = frame[c].seq + 1

\* the call of d is the next call after the call of c, and both have returned
Follows(c, d) ==
  /\ c # d /\ Done(c) /\ Done(d)
  /\ frame[d].seq = frame[c].seq + 1

-----------------------------------------------------------------------------
(* C1 *)

\* C1, as stated: of two calls for one key made within one TTL window (both
\* with a credential), both return equal responses and at most one of them
\* invokes the provider.  While now <= _CACHE_TTL_SEC every call so far lies in
\* one window.
C1_AsStated ==
  \A c, d \in Callers :
    (c # d /\ Done(c) /\ Done(d) /\ Key(c) = Key(d) /\ now <= _CACHE_TTL_SEC
       /\ Configured(c) /\ Configured(d))
      => (Ret(c) = Ret(d) /\ ~(Posted(c) /\ Posted(d)))

\* C1, amended: when a call fetched and stored a non-empty response, the next
\* call for the key, made with a credential, finds that entry; if the entry is
\* then at most _CACHE_TTL_SEC old, the call returns the very response object
\* the first call returned and sends no request.
C1_CacheHit ==
  \A c, d \in Callers :
    (Repeats(c, d) /\ Posted(c) /\ NonEmpty(Ret(c)) /\ Configured(d))
      => /\ Found(d)
         /\ frame[d].item.value = frame[c].ret
         /\ Age(d) <= _CACHE_TTL_SEC
              => (frame[d].ret = frame[c].ret /\ ~Posted(d) /\ Ret(d) = Ret(c))

\* a hit on an entry exactly _CACHE_TTL_SEC old, one request in all
C1_Witness ==
  \E c, d \in Callers :
    /\ Repeats(c, d) /\ Posted(c) /\ NonEmpty(Ret(c))
    /\ Found(d) /\ Age(d) = _CACHE_TTL_SEC
    /\ frame[d].ret = frame[c].ret /\ ~Posted(d)
    /\ posts = 1

-----------------------------------------------------------------------------
(* C2 *)

\* C2, as stated: when the latest call, for key k, has returned and an entry
\* for k that an earlier call stored is at most _CACHE_TTL_SEC old, the call
\* has returned that entry's response and has sent no request.
C2_AsStated ==
  \A c \in Callers :
    (Done(c) /\ frame[c].seq = calls /\ Key(c) \in DOMAIN CACHE
       /\ CACHE[Key(c)].value # frame[c].seq
       /\ now - CACHE[Key(c)].ts <= _CACHE_TTL_SEC)
      => (frame[c].ret = CACHE[Key(c)].value /\ ~Posted(c))

\* C2, amended: a call that has a credential and finds an entry under its key
\* returns the entry's stored response, sending no request, when the entry is
\* at most _CACHE_TTL_SEC old (1800 s included); when it is older the call
\* removes the entry (the lookup is a miss), sends a request and returns a
\* response other than the stored one.
C2_Expiry ==
  \A c \in Callers :
    /\ (Done(c) /\ Found(c) /\ Age(c) <= _CACHE_TTL_SEC)
         => (frame[c].ret = frame[c].item.value /\ ~Posted(c))
    /\ (Done(c) /\ Found(c) /\ Age(c) > _CACHE_TTL_SEC)
         => (frame[c].ret # frame[c].item.value /\ Posted(c))
    /\ pc[c] \in {"post", "wait"} => Key(c) \notin DOMAIN CACHE

\* an entry one second too old was replaced, and another call was served an
\* entry exactly _CACHE_TTL_SEC old
C2_Witness ==
  \E c, d \in Callers :
    /\ Done(c) /\ Found(c) /\ Age(c) = _CACHE_TTL_SEC + 1 /\ Posted(c)
    /\ Done(d) /\ Found(d) /\ Age(d) = _CACHE_TTL_SEC /\ ~Posted(d)

-----------------------------------------------------------------------------
(* C3 *)

\* C3: every cache entry holds a successful response with a non-empty result
\* list; a call whose request ended in an empty list or a failure leaves no
\* entry behind, and the next call for the key sends a request again.
C3_NoNegativeCaching ==
  /\ \A k \in DOMAIN CACHE : NonEmpty(heap[CACHE[k].value])
  /\ \A c \in Callers :
       (Done(c) /\ Posted(c) /\ ~NonEmpty(Ret(c)))
         => \A k \in DOMAIN CACHE : CACHE[k].value # frame[c].ret
  /\ \A c, d \in Callers :
       (Repeats(c, d) /\ Posted(c) /\ ~NonEmpty(Ret(c)) /\ Configured(d))
         => (Posted(d) /\ ~Found(d))

\* an empty result list was returned and the repeated call asked the provider
C3_Witness ==
  \E c, d \in Callers :
    /\ Repeats(c, d) /\ Posted(c) /\ Ret(c).success /\ Ret(c).results = <<>>
    /\ Posted(d)

-----------------------------------------------------------------------------
(* C4 *)

TOKEN_NAME ==
  <<"B","R","I","G","H","T","D","A","T","A","_","A","P","I","_","T","O","K","E","N">>

\* C4: a call made with BRIGHTDATA_API_TOKEN unset or empty returns at once
\* success=false with an error that names the variable, and the number of
\* requests sent is the same after the call as before it.
C4_CredentialGate ==
  [][\A c \in Callers :
       (frame'[c].seq # frame[c].seq /\ ~Configured(c)')
         => /\ pc'[c] = "done"
            /\ posts' = posts
            /\ ~Ret(c)'.success
            /\ Ret(c)'.results = <<>>
            /\ IsStr(Ret(c)'.error) /\ IsSubstr(TOKEN_NAME, Ret(c)'.error.v)]_vars

\* a call with an empty token failed although a fresh entry for its key was
\* stored and requests had been sent before
C4_Witness ==
  \E c \in Callers :
    /\ Done(c) /\ frame[c].api_token = PyStr(<<>>)
    /\ ~Ret(c).success
    /\ Key(c) \in DOMAIN CACHE /\ now - CACHE[Key(c)].ts <= _CACHE_TTL_SEC
    /\ posts >= 1

-----------------------------------------------------------------------------
(* C5 *)

\* C5: every response search_google_serp returns, on every path, has an empty
\* result list when success is false, and has an error text exactly when
\* success is false (the error is None exactly when success is true).
C5_ResponseShape ==
  \A c \in Callers :
    Done(c) =>
      LET r == Ret(c)
      IN /\ ~r.success => r.results = <<>>
         /\ ~r.success => IsStr(r.error) /\ r.error.v # <<>>
         /\ r.success => r.error = PyNone

\* the provider answered 200 and the call still failed (the payload could not
\* be decoded or extracted)
C5_Witness ==
  \E c \in Callers :
    /\ Done(c) /\ Posted(c)
    /\ frame[c].response.t = "response" /\ frame[c].response.status = HttpOk
    /\ ~Ret(c).success /\ Ret(c).results = <<>> /\ IsStr(Ret(c).error)

-----------------------------------------------------------------------------
(* C6 *)

\* C6: no call with a string query ends with an exception reaching the caller,
\* and each provider outcome gives its own failure: a status other than 200
\* the status and the first 200 characters of the body, a timeout the 30 s
\* text, any other fault the fault's description.
C6_AsStated ==
  \A c \in Callers :
    /\ pc[c] # "raised"
    /\ (Done(c) /\ Posted(c)) =>
         LET http == frame[c].response
             r == Ret(c)
         IN /\ http.t = "timeout" => r = Failure(MSG_TIMEOUT)
            /\ http.t = "raised" => r = Failure(MSG_ERROR \o http.v)
            /\ (http.t = "response" /\ http.status # HttpOk) =>
                 r = Failure(MSG_FAILED \o Digits(http.status) \o MSG_SEP
                             \o SliceTo(http.text, ErrorBodyMax))

-----------------------------------------------------------------------------
(* C7 *)

\* C7: what the cache holds under a key is the cache's own copy: as long as
\* the entry of a key is not replaced or removed, the response a hit for that
\* key returns stays what it was, whatever callers do to the responses they
\* were handed.
C7_AsStated ==
  [][\A k \in DOMAIN CACHE :
       (k \in DOMAIN CACHE' /\ CACHE'[k] = CACHE[k])
         => heap'[CACHE'[k].value] = heap[CACHE[k].value]]_vars

-----------------------------------------------------------------------------
(* C8 *)

\* the provider's payload as the strategies see it: decoded and unwrapped
Payload(c) == Unwrap(Decode(frame[c].format_type, frame[c].response))

\* the results of r are built, in order, from the leading items of lst
OnlyFrom(r, lst) ==
  IF ~IsList(lst) THEN r.results = <<>>
  ELSE /\ Len(r.results) <= Len(lst.v)
       /\ \A i \in 1..Len(r.results) :
            /\ IsDict(lst.v[i])
            /\ r.results[i].v.title = Get(lst.v[i].v, "title", PyStr(<<>>))
            /\ r.results[i].v.link =
                 Get(lst.v[i].v, "link", Get(lst.v[i].v, "url", PyStr(<<>>)))

\* the call of c got a 200 answer from the provider
Answered(c) ==
  /\ Done(c) /\ Posted(c)
  /\ frame[c].response.t = "response" /\ frame[c].response.status = HttpOk

\* C8: the strategies are tried in the order organic, results, raw, and the
\* first whose field is present in the payload is the only one used: with an
\* organic field every result comes from the organic list (none when that list
\* gives no item, whatever results and raw hold); without it and with a
\* results field every result comes from the results list; with neither, only
\* the raw text gives results.
C8_ExtractionPriority ==
  \A c \in Callers :
    (Answered(c) /\ IsDict(Payload(c))) =>
      LET data == Payload(c).v
          r == Ret(c)
      IN /\ "organic" \in DOMAIN data => OnlyFrom(r, data.organic)
         /\ ("organic" \notin DOMAIN data /\ "results" \in DOMAIN data)
              => OnlyFrom(r, data.results)
         /\ ("organic" \notin DOMAIN data /\ "results" \notin DOMAIN data)
              => \A i \in 1..Len(r.results) :
                   /\ "raw" \in DOMAIN data
                   /\ r.results[i].v.link = PyStr(<<>>)
                   /\ SliceTo(r.results[i].v.title.v, Len(RESULT_PREFIX))
                        = RESULT_PREFIX

\* a payload with an organic and a results list, both with items, gave
\* results
C8_Witness ==
  \E c \in Callers :
    /\ Answered(c) /\ IsDict(Payload(c))
    /\ {"organic", "results"} \subseteq DOMAIN Payload(c).v
    /\ IsList(Payload(c).v.results) /\ Payload(c).v.results.v # <<>>
    /\ NonEmpty(Ret(c))

-----------------------------------------------------------------------------
(* C9 *)

\* C9: every result of every response search_google_serp returns, fresh or
\* from the cache, has a snippet of at most 300 characters.
C9_SnippetBound ==
  \A c \in Callers :
    Done(c) =>
      \A i \in 1..Len(Ret(c).results) :
        Len(Ret(c).results[i].v.snippet.v) <= 300

\* a response served from the cache holds a snippet that was cut to exactly
\* 300 characters
C9_Witness ==
  \E c \in Callers :
    /\ Done(c) /\ Found(c) /\ ~Posted(c)
    /\ \E i \in 1..Len(Ret(c).results) :
         Len(Ret(c).results[i].v.snippet.v) = 300

-----------------------------------------------------------------------------
(* C10 *)

\* both callers read the same entry of their common key, both found it
\* expired and both asked the provider: their calls ran concurrently
BothMissed(c, d) ==
  /\ c # d /\ Key(c) = Key(d)
  /\ Found(c) /\ Found(d) /\ frame[c].item = frame[d].item
  /\ Posted(c) /\ Posted(d)
  /\ Done(c) /\ Done(d)

\* C10: after two concurrent calls for one key have both missed and finished,
\* the cache entry of the key is the complete response of the set that
\* executed last: when either call stored its response the key has an entry,
\* and the entry is the whole response one of the two calls stored.
C10_AsStated ==
  \A c, d \in Callers :
    (BothMissed(c, d) /\ (NonEmpty(Ret(c)) \/ NonEmpty(Ret(d)))) =>
      /\ Key(c) \in DOMAIN CACHE
      /\ \E e \in {c, d} :
           /\ NonEmpty(Ret(e))
           /\ CACHE[Key(c)].value = frame[e].ret

\* two concurrent calls both missed, both asked the provider and got
\* different result lists; the entry is the response of one of them
C10_Witness ==
  \E c, d \in Callers :
    /\ BothMissed(c, d)
    /\ NonEmpty(Ret(c)) /\ NonEmpty(Ret(d)) /\ Ret(c) # Ret(d)
    /\ Key(c) \in DOMAIN CACHE
    /\ heap[CACHE[Key(c)].value] = Ret(d)

-----------------------------------------------------------------------------
(* C11 *)

\* the field the selected strategy reads has the type the strategy expects:
\* a list for organic and results, a text for raw
WellFormed(c) ==
  /\ IsDict(Payload(c))
  /\ LET data == Payload(c).v
     IN IF "organic" \in DOMAIN data THEN IsList(data.organic)
        ELSE IF "results" \in DOMAIN data THEN IsList(data.results)
        ELSE IF "raw" \in DOMAIN data THEN IsStr(data.raw)
        ELSE TRUE

\* C11: a call with num_results zero or negative that got a 200 answer with
\* a payload of any strategy returns success=true with no results, and
\* nothing is cached under its key.
C11_AsStated ==
  \A c \in Callers :
    (Answered(c) /\ frame[c].num_results <= 0 /\ WellFormed(c)) =>
      /\ Ret(c).success
      /\ Ret(c).results = <<>>
      /\ Key(c) \notin DOMAIN CACHE

-----------------------------------------------------------------------------
(* C12 *)

\* C12: of two calls with the same query and different counts the second is
\* never handed the response of the first: the two keys differ, the second
\* call returns another response object, and it asks the provider unless an
\* entry stored under its own key by another call serves it.
C12_CountInKey ==
  \A c, d \in Callers :
    (Follows(c, d) /\ frame[c].query = frame[d].query
       /\ frame[c].num_results # frame[d].num_results)
      => /\ Key(c) # Key(d)
         /\ frame[d].ret # frame[c].ret
         /\ Posted(d) \/ (Found(d) /\ frame[d].item.value # frame[c].ret)

\* the first call cached a non-empty response for (q, 1); the call for (q, 2)
\* asked the provider
C12_Witness ==
  \E c, d \in Callers :
    /\ Follows(c, d) /\ frame[c].query = frame[d].query
    /\ frame[c].num_results = 1 /\ frame[d].num_results = 2
    /\ NonEmpty(Ret(c)) /\ Key(c) \in DOMAIN CACHE
    /\ Posted(d) /\ posts = 2

-----------------------------------------------------------------------------
(* C13 *)

\* C13: of two calls with the same count whose queries differ only in letter
\* case (they are equal once case-folded), the second, made within the TTL
\* after the first cached a non-empty response, is a cache hit: it returns the
\* first call's response and sends no request.
C13_AsStated ==
  LET Fold(ch) == IF ch \in UpperSet THEN LowerOf[ch]
                  ELSE IF ch \in {SIGMA_UPPER, SIGMA_FINAL} THEN SIGMA
                  ELSE ch
      CaseVariants(q1, q2) ==
        /\ Len(q1) = Len(q2)
        /\ \A i \in 1..Len(q1) : Fold(q1[i]) = Fold(q2[i])
  IN \A c, d \in Callers :
       (Follows(c, d) /\ frame[c].num_results = frame[d].num_results
          /\ CaseVariants(frame[c].query, frame[d].query)
          /\ Posted(c) /\ NonEmpty(Ret(c)))
         => (~Posted(d) /\ frame[d].ret = frame[c].ret)

\* queries that differ in the case of the letters A to Z: the second call is
\* a hit
C13_Witness ==
  \E c, d \in Callers :
    /\ Follows(c, d) /\ frame[c].num_results = frame[d].num_results
    /\ frame[c].query = QueryMixed /\ frame[d].query = QueryLower
    /\ Posted(c) /\ NonEmpty(Ret(c))
    /\ ~Posted(d) /\ frame[d].ret = frame[c].ret /\ posts = 1

-----------------------------------------------------------------------------
(* C14 *)

-----------------------------------------------------------------------------
(* C15 *)

\* C15: when the provider answers 200 and the unwrapped payload has none of
\* the fields organic, results and raw, the call returns success=true with an
\* empty result list and no error, and leaves the cache as it was.
C15_AsStated ==
  [][\A c \in Callers :
       (pc[c] = "wait" /\ Answered(c)'
          /\ ~(IsDict(Payload(c)')
                 /\ DOMAIN Payload(c)'.v \cap {"organic", "results", "raw"} # {}))
         => /\ Ret(c)'.success
            /\ Ret(c)'.results = <<>>
            /\ Ret(c)'.error = PyNone
            /\ CACHE' = CACHE]_vars

-----------------------------------------------------------------------------
(* C16 *)

\* C16: when the organic strategy (or, without an organic field, the results
\* strategy) runs on a list of m items with num_results = n >= 1, the call
\* returns success=true with exactly min(m, n) results, the i-th built from
\* the i-th item of the list.
C16_AsStated ==
  \A c \in Callers :
    (Answered(c) /\ IsDict(Payload(c)) /\ frame[c].num_results >= 1) =>
      LET data == Payload(c).v
          n == frame[c].num_results
          Exact(lst) ==
            IsList(lst) =>
              /\ Ret(c).success
              /\ Len(Ret(c).results) = Min(Len(lst.v), n)
              /\ OnlyFrom(Ret(c), lst)
      IN /\ "organic" \in DOMAIN data => Exact(data.organic)
         /\ ("organic" \notin DOMAIN data /\ "results" \in DOMAIN data)
              => Exact(data.results)

-----------------------------------------------------------------------------
(* C19 *)

\* C19: when the decoded payload is a mapping with a body field, the payload
\* the strategies read is that field's value (decoded once more when it is a
\* text, or {raw: body} when that decoding fails) and no result comes from
\* the organic, results or raw field of the envelope; a text body that cannot
\* be decoded still gives success=true.
C19_AsStated ==
  \A c \in Callers :
    LET outer == Decode(frame[c].format_type, frame[c].response)
    IN (Answered(c) /\ IsDict(outer) /\ "body" \in DOMAIN outer.v) =>
         LET body == outer.v.body
         IN /\ Payload(c) # outer
            /\ ~(IsDict(body) \/ IsStr(body)) => Ret(c).results = <<>>
            /\ (IsStr(body) /\ IsRaised(JsonLoads(body.v)))
                 => (Payload(c) = PyDict([raw |-> body]) /\ Ret(c).success)

-----------------------------------------------------------------------------
(* C20 *)

\* C20: when the raw-text strategy runs with num_results = n >= 0, the results
\* are the first n of the matches longer than 30 characters, in order; the
\* k-th result has the title "Result k", the match cut to 300 characters as
\* snippet and an empty link.
C20_AsStated ==
  \A c \in Callers :
    (Answered(c) /\ IsDict(Payload(c)) /\ frame[c].num_results >= 0
       /\ DOMAIN Payload(c).v \cap {"organic", "results"} = {}
       /\ "raw" \in DOMAIN Payload(c).v /\ IsStr(Payload(c).v.raw)) =>
      LET IsLong(m) == Len(m) > 30
          long == SelectSeq(FindSnippets(Payload(c).v.raw.v), IsLong)
          r == Ret(c)
      IN /\ r.success
         /\ Len(r.results) = Min(frame[c].num_results, Len(long))
         /\ \A k \in 1..Len(r.results) :
              /\ r.results[k].v.title = PyStr(RESULT_PREFIX \o Digits(k))
              /\ r.results[k].v.snippet = PyStr(SliceTo(long[k], 300))
              /\ r.results[k].v.link = PyStr(<<>>)

-----------------------------------------------------------------------------
(* C18 *)

\* C18, as stated: the cache is consulted before the credential is looked
\* at, so the missing-credential failure is produced only on a miss: when the
\* latest call has returned that failure, its key has no fresh entry.
C18_AsStated ==
  \A c \in Callers :
    (Done(c) /\ frame[c].seq = calls /\ ~Ret(c).success
       /\ IsSubstr(TOKEN_NAME, Ret(c).error.v))
      => ~(Key(c) \in DOMAIN CACHE
             /\ now - CACHE[Key(c)].ts <= _CACHE_TTL_SEC)

\* C18, amended: the credential is looked at first.  A call without one
\* returns the missing-credential failure at once and does not read the
\* cache; a call with one reads the entry of its key before any request, and
\* sends a request only when it found no entry or found it expired.
C18_GateThenCache ==
  [][\A c \in Callers :
       /\ (frame'[c].seq # frame[c].seq /\ ~Configured(c)')
            => /\ pc'[c] = "done"
               /\ frame'[c].item = PyNone
               /\ ~Ret(c)'.success
               /\ IsSubstr(TOKEN_NAME, Ret(c)'.error.v)
       /\ (frame'[c].seq # frame[c].seq /\ Configured(c)')
            => /\ posts' = posts
               /\ frame'[c].item =
                    (IF Key(c)' \in DOMAIN CACHE THEN CACHE[Key(c)'] ELSE PyNone)
               /\ pc'[c] = (IF Found(c)' THEN "check" ELSE "post")
       /\ (posts' # posts /\ pc'[c] = "wait" /\ pc[c] # "wait")
            => (~Found(c) \/ Age(c) > _CACHE_TTL_SEC)]_vars

\* a call with a credential cached a non-empty response; the next call, for
\* the same key and without a credential, got the missing-credential failure
\* while that entry was fresh
C18_Witness ==
  \E c, d \in Callers :
    /\ Follows(c, d) /\ Key(c) = Key(d)
    /\ Configured(c) /\ NonEmpty(Ret(c))
    /\ frame[d].api_token = PyNone
    /\ ~Ret(d).success /\ frame[d].item = PyNone
    /\ Key(d) \in DOMAIN CACHE /\ CACHE[Key(d)].value = frame[c].ret
    /\ now - CACHE[Key(d)].ts <= _CACHE_TTL_SEC

-----------------------------------------------------------------------------
(* C17 *)

\* C17: the text format_serp_results returns shows the results in an order
\* that, for a non-empty keyword list, is descending in the score (the number
\* of keywords that occur, letter case ignored, as substrings of the title, a
\* space and the snippet) with results of equal score in their original
\* order, and that is the original order when the keywords are None or empty.
C17_AsStated ==
  \A c \in Callers :
    (Done(c) /\ frame[c].formatted # PyNone /\ Ret(c).results # <<>>) =>
      LET results == Ret(c).results
          kws == frame[c].topic_keywords
          n == Len(results)
          SameLetter(a, b) ==
            \/ a = b
            \/ LowerChar(a) = LowerChar(b)
            \/ {a, b} \subseteq {SIGMA_UPPER, SIGMA, SIGMA_FINAL}
          Occurs(kw, text) ==
            \E i \in 1..(Len(text) - Len(kw) + 1) :
              \A k \in 1..Len(kw) : SameLetter(text[i + k - 1], kw[k])
          Score(r) ==
            Cardinality({i \in 1..Len(kws.v) :
              Occurs(kws.v[i].v, r.v.title.v \o <<" ">> \o r.v.snippet.v)})
      IN \E p \in [1..n -> 1..n] :
           /\ \A i, j \in 1..n : i # j => p[i] # p[j]
           /\ frame[c].formatted.v = Rendering([i \in 1..n |-> results[p[i]]])
           /\ IF kws = PyNone \/ kws.v = <<>>
              THEN \A i \in 1..n : p[i] = i
              ELSE \A i, j \in 1..n :
                     i < j => \/ Score(results[p[i]]) > Score(results[p[j]])
                              \/ /\ Score(results[p[i]]) = Score(results[p[j]])
                                 /\ p[i] < p[j]

\* the results Pool (no keyword), Wifi (two), Rooms (two), rendered with the
\* keywords ROOM and WiFi, come out as Wifi, Rooms, Pool
C17_Witness ==
  \E c \in Callers :
    /\ Done(c) /\ frame[c].formatted # PyNone
    /\ frame[c].topic_keywords
         = PyList(<<PyStr(KW_ROOM_UPPER), PyStr(KW_WIFI_MIXED)>>)
    /\ Len(Ret(c).results) = 3
    /\ Ret(c).results[1].v.title = PyStr(<<"P","o","o","l">>)
    /\ Ret(c).results[2].v.title = PyStr(<<"W","i","f","i">>)
    /\ Ret(c).results[3].v.title = PyStr(<<"R","o","o","m","s">>)
    /\ frame[c].formatted.v
         = Rendering(<<Ret(c).results[2], Ret(c).results[3], Ret(c).results[1]>>)

-----------------------------------------------------------------------------
(* C21 *)

\* caller c takes this step, a get or a set of the store
Acts(c, op) ==
  calls' = calls + 1 /\ frame'[c].seq = calls' /\ frame'[c].op = op

\* C21: an entry's value and insertion time are changed only by a set.  Every
\* set leaves under its key the new value with the current time, whatever
\* was there before; a get that returns a value (a hit) changes nothing.  A
\* get of a key whose entry was last set more than _CACHE_TTL_SEC ago returns
\* None, however many gets came in between, and a get at most _CACHE_TTL_SEC
\* after the last set returns the value of that set, also when the set
\* re-created an entry that had expired.
C21_SetAloneStamps ==
  [][ /\ \A k \in DOMAIN CACHE' :
           (k \notin DOMAIN CACHE \/ CACHE'[k] # CACHE[k]) =>
             \E c \in Callers : Acts(c, "set") /\ frame'[c].key = k
      /\ \A c \in Callers :
           Acts(c, "set") =>
             CACHE'[frame'[c].key] = [value |-> frame'[c].ret, ts |-> now]
      /\ \A c \in Callers :
           Acts(c, "get") =>
             LET k == frame'[c].key
             IN /\ frame'[c].ret # 0 => CACHE' = CACHE
                /\ k \notin DOMAIN CACHE => frame'[c].ret = 0
                /\ (k \in DOMAIN CACHE /\ now - CACHE[k].ts > _CACHE_TTL_SEC)
                     => frame'[c].ret = 0
                /\ (k \in DOMAIN CACHE /\ now - CACHE[k].ts <= _CACHE_TTL_SEC)
                     => frame'[c].ret = CACHE[k].value
    ]_vars

\* a set replaced an entry that had expired, giving it another value, and the
\* get that followed exactly _CACHE_TTL_SEC later was served the new value
C21_Witness ==
  \E c, d \in Callers :
    /\ frame[d].op = "set" /\ frame[d].item # PyNone
    /\ frame[d].t - frame[d].item.ts > _CACHE_TTL_SEC
    /\ frame[d].item.value # frame[d].ret
    /\ frame[c].op = "get" /\ frame[c].seq = frame[d].seq + 1
    /\ frame[c].key = frame[d].key
    /\ frame[c].t - frame[d].t = _CACHE_TTL_SEC
    /\ frame[c].ret = frame[d].ret
    /\ CACHE[frame[c].key] = [value |-> frame[d].ret, ts |-> frame[d].t]

-----------------------------------------------------------------------------
(* C22 *)

\* C22: an entry leaves the cache only in the removal step of a lookup of its
\* own key that found it older than _CACHE_TTL_SEC; the passing of time
\* removes nothing, so an expired entry that is not looked up stays.  Every
\* step of a call for key k (the gate, the lookup, the removal, the request,
\* the answer with the cache write, whether the call hits, misses, succeeds
\* or fails) leaves the entries of all other keys, and the responses they
\* hold, as they were.
C22_LazyExpiry ==
  [][ /\ \A k \in DOMAIN CACHE :
           k \notin DOMAIN CACHE' =>
             \E c \in Callers :
               /\ pc[c] = "pop" /\ pc'[c] = "post"
               /\ CacheKey(frame[c].query, frame[c].num_results) = k
               /\ frame[c].t - CACHE[k].ts > _CACHE_TTL_SEC
      /\ now' # now => CACHE' = CACHE
      /\ \A c \in Callers :
           (pc'[c] # pc[c] \/ frame'[c] # frame[c]) =>
             \A k \in (DOMAIN CACHE \cup DOMAIN CACHE')
                        \ {CacheKey(frame'[c].query, frame'[c].num_results)} :
               /\ k \in DOMAIN CACHE /\ k \in DOMAIN CACHE'
               /\ CACHE'[k] = CACHE[k]
               /\ heap'[CACHE'[k].value] = heap[CACHE[k].value]
    ]_vars

\* the entry of one key is older than _CACHE_TTL_SEC and still in the cache
\* after a call for the other key, made once it had expired, stored its own
\* response
C22_Witness ==
  \E c, d \in Callers :
    /\ Key(c) # Key(d) /\ Done(c) /\ Done(d)
    /\ Key(c) \in DOMAIN CACHE /\ Key(d) \in DOMAIN CACHE
    /\ now - CACHE[Key(c)].ts > _CACHE_TTL_SEC
    /\ CACHE[Key(c)].value = frame[c].ret
    /\ Posted(d) /\ CACHE[Key(d)].value = frame[d].ret
    /\ CACHE[Key(d)].ts - CACHE[Key(c)].ts > _CACHE_TTL_SEC

-----------------------------------------------------------------------------
(* C23 *)

\* C23: whatever the interleaving of the callers, a step that removes an
\* entry from the cache removes one that is older than _CACHE_TTL_SEC: an
\* entry whose age is within the TTL is never deleted.
C23_AsStated ==
  [][ \A k \in DOMAIN CACHE :
        k \notin DOMAIN CACHE' => now - CACHE[k].ts > _CACHE_TTL_SEC ]_vars

\* two callers read the same expired entry; one of them stored a fresh
\* response and the removal step of the other deleted it: both calls are over
\* and the key has no entry
C23_Witness ==
  \E c, d \in Callers :
    /\ BothMissed(c, d)
    /\ NonEmpty(Ret(c)) /\ ~NonEmpty(Ret(d))
    /\ Key(c) \notin DOMAIN CACHE

=============================================================================
